---- MODULE Spec2Model ----
(***************************************************************************)
(* Model of src/src/App.tsx: the liveliness-challenge component.           *)
(*                                                                         *)
(* State: the component's React state (useState), its refs (useRef), and   *)
(* the environment it talks to: the outstanding getUserMedia calls, the    *)
(* media streams whose tracks are live, and the armed browser timers.      *)
(* Every action is one event handler, promise continuation or timer        *)
(* callback, run to completion together with the re-render it causes       *)
(* (JavaScript is single threaded).  The browser gives no ordering between *)
(* the 1000 ms interval and the 800 ms timeout chain, so their callbacks   *)
(* interleave freely.                                                      *)
(*                                                                         *)
(* Two specifications:                                                     *)
(*   Spec        the component from mount (Init).                          *)
(*   SpecActive  the same handlers started in the state that startCamera's *)
(*               success branch (lines 36-38) writes.  Spec never reaches  *)
(*               that state (see CameraActivatesOnSuccess below), so the   *)
(*               challenge handlers are exercised under SpecActive.        *)
(***************************************************************************)
EXTENDS Integers, Sequences, FiniteSets, TLC

\* ---- bounds -------------------------------------------------------------
MaxLen == 2          \* longest name / e-mail typed into the form
MaxRuns == 2         \* challenges started per mounted component
MaxAcquire == 2      \* getUserMedia calls per mounted component
LogCap == 10         \* the history counters and tickLog saturate here

\* ---- program constants --------------------------------------------------
ChallengeSeconds == 6     \* setTimeLeft(6)
ResultDuration == 6       \* duration: 6
moveInterval == 800
totalDuration == 6000

Chars == {" ", "a", "@"}
Strings == UNION {[1..n -> Chars] : n \in 0..MaxLen}

\* Math.random() in hundredths, a value of [0, 1): the draws of the verdict
\* (around its 0.3 threshold) and of the dot coordinates (the two extremes)
RandomDraws == {0, 30, 31, 99}
DotDraws == {0, 99}

NullResult == [status |-> "null", duration |-> 0]

VARIABLES
  user, isRegistered, isCameraActive, isChallengeActive, challengeResult,
  timeLeft, dotPosition,                       \* useState
  videoRefCurrent, streamRef, challengeTimerRef, dotTimerRef,   \* useRef
  mounted,          \* the component is mounted (cleanup has not run)
  pending,          \* getUserMedia calls not yet settled
  acquired,         \* streams handed out so far; their ids are 1..acquired
  liveStreams,      \* ids of the streams with unstopped tracks
  lastOutcome,      \* how the last getUserMedia call settled
  lastAlert,        \* the last alert() shown
  intervals,        \* ids of the armed setInterval timers
  timeouts,         \* armed setTimeout timers: [id, elapsed of its closure]
  nextTimerId,
  runs,             \* challenges started
  tickLog,          \* timeLeft values the ticks of the current run produced
  moves,            \* position events of the current run
  completions,      \* endChallenge calls of the current run
  firedAfterTeardown,  \* a timer callback ran after the cleanup
  lastCall          \* the last caller operation and whether it took effect

reactState == <<user, isRegistered, isCameraActive, isChallengeActive,
                challengeResult, timeLeft, dotPosition>>
refs == <<videoRefCurrent, streamRef, challengeTimerRef, dotTimerRef>>
env == <<mounted, pending, acquired, liveStreams, lastOutcome, lastAlert,
         intervals, timeouts, nextTimerId>>
hist == <<runs, tickLog, moves, completions, firedAfterTeardown>>
\* everything but the record of the last call
programVars == <<reactState, refs, env, hist>>
vars == <<programVars, lastCall>>

\* ---- pure helpers -------------------------------------------------------
IsSpace(c) == c = " "

RECURSIVE TrimStart(_)
TrimStart(s) ==
  IF s # <<>> /\ IsSpace(Head(s)) THEN TrimStart(Tail(s)) ELSE s

RECURSIVE TrimEnd(_)
TrimEnd(s) ==
  IF s # <<>> /\ IsSpace(s[Len(s)]) THEN TrimEnd(SubSeq(s, 1, Len(s) - 1)) ELSE s

\* String.prototype.trim
Trim(s) == TrimEnd(TrimStart(s))

\* String.prototype.includes for a one-character needle
Includes(s, c) == \E i \in 1..Len(s) : s[i] = c

\* JavaScript truthiness of a string
Truthy(s) == s # <<>>

\* variant: the '@' test left out
RegistrationValidNoAt(u) ==
  Truthy(Trim(u.name)) /\ Truthy(Trim(u.email))

\* the condition of handleRegister
RegistrationValid(u) ==
  Truthy(Trim(u.name)) /\ Truthy(Trim(u.email)) /\ Includes(u.email, "@")

\* variant: a span of 90 instead of 80
DotCoordWide(r) == r * 90 + 1000

\* Math.random() * 80 + 10, in hundredths of a percent
DotCoord(r) == r * 80 + 1000

\* Math.random() > 0.3 ? 'PASS' : 'FAIL'
Verdict(r) == IF r > 30 THEN "PASS" ELSE "FAIL"

\* ---- what the render mounts --------------------------------------------
\* {isCameraActive ? <video ref={videoRef}/> : <div/>}
VideoRendered(cam) == cam

\* variant: the form stays on screen after the registration
FormShownAlways == TRUE

\* {!isRegistered ? <form/> : <registered/>}
FormShown == ~isRegistered

\* {isRegistered && <Challenge Controls/>}
ControlsShown == isRegistered

\* variant: the button stays enabled while a challenge runs
StartDisabledCameraOnly == ~isCameraActive

\* disabled={!isCameraActive || isChallengeActive}
StartDisabled == ~isCameraActive \/ isChallengeActive

\* ---- initial states -----------------------------------------------------
\* the useState / useRef initialisers, lines 16-27
Init ==
  /\ user = [name |-> <<>>, email |-> <<>>]
  /\ isRegistered = FALSE
  /\ isCameraActive = FALSE
  /\ isChallengeActive = FALSE
  /\ challengeResult = NullResult
  /\ timeLeft = 0
  /\ dotPosition = [x |-> 5000, y |-> 5000]
  /\ videoRefCurrent = VideoRendered(FALSE)
  /\ streamRef = 0
  /\ challengeTimerRef = 0
  /\ dotTimerRef = 0
  /\ mounted = TRUE
  /\ pending = 0
  /\ acquired = 0
  /\ liveStreams = {}
  /\ lastOutcome = "none"
  /\ lastAlert = "none"
  /\ intervals = {}
  /\ timeouts = {}
  /\ nextTimerId = 1
  /\ runs = 0
  /\ tickLog = <<>>
  /\ moves = 0
  /\ completions = 0
  /\ firedAfterTeardown = FALSE
  /\ lastCall = "none"

\* The state written by handleRegister's and startCamera's success branches:
\* setIsRegistered(true) (62), videoRef.current.srcObject = stream,
\* streamRef.current = stream, setIsCameraActive(true) (36-38), and the
\* <video> the following render mounts (167-174).
InitActive ==
  /\ user = [name |-> <<"a">>, email |-> <<"a", "@">>]
  /\ isRegistered = TRUE
  /\ isCameraActive = TRUE
  /\ isChallengeActive = FALSE
  /\ challengeResult = NullResult
  /\ timeLeft = 0
  /\ dotPosition = [x |-> 5000, y |-> 5000]
  /\ videoRefCurrent = VideoRendered(TRUE)
  /\ streamRef = 1
  /\ challengeTimerRef = 0
  /\ dotTimerRef = 0
  /\ mounted = TRUE
  /\ pending = 0
  /\ acquired = 1
  /\ liveStreams = {1}
  /\ lastOutcome = "fulfilled"
  /\ lastAlert = "none"
  /\ intervals = {}
  /\ timeouts = {}
  /\ nextTimerId = 1
  /\ runs = 0
  /\ tickLog = <<>>
  /\ moves = 0
  /\ completions = 0
  /\ firedAfterTeardown = FALSE
  /\ lastCall = "register:ok"

\* ---- the registration form ---------------------------------------------
\* onChange of the name input, line 260
SetName(s) ==
  /\ mounted /\ FormShown
  /\ user' = [user EXCEPT !.name = s]
  /\ UNCHANGED <<isRegistered, isCameraActive, isChallengeActive,
                 challengeResult, timeLeft, dotPosition, refs, env, hist,
                 lastCall>>

\* onChange of the e-mail input, line 270
SetEmail(s) ==
  /\ mounted /\ FormShown
  /\ user' = [user EXCEPT !.email = s]
  /\ UNCHANGED <<isRegistered, isCameraActive, isChallengeActive,
                 challengeResult, timeLeft, dotPosition, refs, env, hist,
                 lastCall>>

\* startCamera up to its await: one more getUserMedia call is outstanding
startCamera ==
  /\ pending' = pending + 1

\* variant: the camera is flagged active before getUserMedia settles
handleRegisterOptimistic ==
  /\ mounted /\ FormShown
  /\ IF RegistrationValid(user)
     THEN /\ acquired + pending < MaxAcquire
          /\ isRegistered' = TRUE
          /\ isCameraActive' = TRUE
          /\ startCamera
          /\ lastCall' = "register:ok"
          /\ UNCHANGED lastAlert
     ELSE /\ lastAlert' = "validation"
          /\ lastCall' = "register:invalid"
          /\ UNCHANGED <<isRegistered, pending, isCameraActive>>
  /\ videoRefCurrent' = VideoRendered(isCameraActive')
  /\ UNCHANGED <<user, isChallengeActive, challengeResult,
                 timeLeft, dotPosition, streamRef, challengeTimerRef,
                 dotTimerRef, mounted, acquired, liveStreams, lastOutcome,
                 intervals, timeouts, nextTimerId, hist>>

\* click on "Register & Activate Camera"
handleRegister ==
  /\ mounted /\ FormShown
  /\ IF RegistrationValid(user)
     THEN /\ acquired + pending < MaxAcquire
          /\ isRegistered' = TRUE
          /\ startCamera
          /\ lastCall' = "register:ok"
          /\ UNCHANGED lastAlert
     ELSE /\ lastAlert' = "validation"
          /\ lastCall' = "register:invalid"
          /\ UNCHANGED <<isRegistered, pending>>
  /\ videoRefCurrent' = VideoRendered(isCameraActive)
  /\ UNCHANGED <<user, isCameraActive, isChallengeActive, challengeResult,
                 timeLeft, dotPosition, streamRef, challengeTimerRef,
                 dotTimerRef, mounted, acquired, liveStreams, lastOutcome,
                 intervals, timeouts, nextTimerId, hist>>

\* ---- getUserMedia settles ----------------------------------------------
\* variant: setIsCameraActive(true) moved out of the videoRef test
GetUserMediaFulfilsAlwaysActive ==
  /\ pending > 0
  /\ pending' = pending - 1
  /\ acquired' = acquired + 1
  /\ liveStreams' = liveStreams \cup {acquired + 1}
  /\ lastOutcome' = "fulfilled"
  /\ IF videoRefCurrent
     THEN streamRef' = acquired + 1
     ELSE UNCHANGED streamRef
  /\ isCameraActive' = (IF mounted THEN TRUE ELSE isCameraActive)
  /\ videoRefCurrent' = (mounted /\ VideoRendered(isCameraActive'))
  /\ UNCHANGED <<user, isRegistered, isChallengeActive, challengeResult,
                 timeLeft, dotPosition, challengeTimerRef, dotTimerRef,
                 mounted, lastAlert, intervals, timeouts, nextTimerId, hist,
                 lastCall>>

\* the promise fulfils: the rest of the try block, lines 35-39
GetUserMediaFulfils ==
  /\ pending > 0
  /\ pending' = pending - 1
  /\ acquired' = acquired + 1
  /\ liveStreams' = liveStreams \cup {acquired + 1}
  /\ lastOutcome' = "fulfilled"
  /\ IF videoRefCurrent
     THEN /\ streamRef' = acquired + 1
          /\ isCameraActive' = TRUE
     ELSE UNCHANGED <<streamRef, isCameraActive>>
  /\ videoRefCurrent' = (mounted /\ VideoRendered(isCameraActive'))
  /\ UNCHANGED <<user, isRegistered, isChallengeActive, challengeResult,
                 timeLeft, dotPosition, challengeTimerRef, dotTimerRef,
                 mounted, lastAlert, intervals, timeouts, nextTimerId, hist,
                 lastCall>>

\* variant: the catch block rolls the registration back
GetUserMediaRejectsRollback(errorName) ==
  /\ pending > 0
  /\ pending' = pending - 1
  /\ lastOutcome' = "rejected"
  /\ lastAlert' = IF errorName = "NotAllowedError" THEN "denied" ELSE "required"
  /\ isRegistered' = FALSE
  /\ UNCHANGED <<user, isCameraActive, isChallengeActive, challengeResult,
                 timeLeft, dotPosition, refs, mounted, acquired, liveStreams,
                 intervals, timeouts, nextTimerId, hist, lastCall>>

\* the promise rejects: the catch block, lines 40-47
GetUserMediaRejects(errorName) ==
  /\ pending > 0
  /\ pending' = pending - 1
  /\ lastOutcome' = "rejected"
  /\ lastAlert' = IF errorName = "NotAllowedError" THEN "denied" ELSE "required"
  /\ UNCHANGED <<reactState, refs, mounted, acquired, liveStreams,
                 intervals, timeouts, nextTimerId, hist, lastCall>>

\* ---- the challenge ------------------------------------------------------
Sat(n) == IF n < LogCap THEN n + 1 ELSE n

\* variant: the duration test made before elapsed is advanced
RearmLate(elapsedNow) == elapsedNow - moveInterval < totalDuration

\* if (elapsed < totalDuration), line 104, on the advanced elapsed
Rearm(elapsedNow) == elapsedNow < totalDuration

\* one call of moveDot (98-107) in a closure whose `elapsed` is e: publish a
\* position (ignored by React once unmounted), add moveInterval, and re-arm
\* while elapsed < totalDuration.  armedNow is the timeout set at the call,
\* id the identifier setTimeout would return.
moveDot(e, rx, ry, armedNow, id) ==
  /\ dotPosition' = IF mounted THEN [x |-> DotCoord(rx), y |-> DotCoord(ry)]
                    ELSE dotPosition
  /\ IF Rearm(e + moveInterval)
     THEN /\ timeouts' = armedNow \cup {[id |-> id, elapsed |-> e + moveInterval]}
          /\ dotTimerRef' = id
          /\ nextTimerId' = id + 1
     ELSE /\ timeouts' = armedNow
          /\ dotTimerRef' = dotTimerRef
          /\ nextTimerId' = id

\* variant: the stale result is not cleared
startChallengeKeepsResult(rx, ry) ==
  IF ~isCameraActive
  THEN /\ lastCall' = "start:ignored"
       /\ UNCHANGED programVars
  ELSE /\ runs < MaxRuns
       /\ lastCall' = "start:run"
       /\ isChallengeActive' = TRUE
       /\ challengeResult' = challengeResult
       /\ timeLeft' = ChallengeSeconds
       /\ intervals' = intervals \cup {nextTimerId}
       /\ challengeTimerRef' = nextTimerId
       /\ moveDot(0, rx, ry, timeouts, nextTimerId + 1)
       /\ runs' = runs + 1
       /\ tickLog' = <<>>
       /\ completions' = 0
       /\ moves' = 1
       /\ videoRefCurrent' = VideoRendered(isCameraActive)
       /\ UNCHANGED <<user, isRegistered, isCameraActive, streamRef, mounted,
                      pending, acquired, liveStreams, lastOutcome, lastAlert,
                      firedAfterTeardown>>

\* startChallenge, lines 70-90 (moveDotRandomly, 93-110, starts the chain
\* with elapsed = 0 and calls moveDot once synchronously)
startChallenge(rx, ry) ==
  IF ~isCameraActive
  THEN /\ lastCall' = "start:ignored"
       /\ UNCHANGED programVars
  ELSE /\ runs < MaxRuns
       /\ lastCall' = "start:run"
       /\ isChallengeActive' = TRUE
       /\ challengeResult' = NullResult
       /\ timeLeft' = ChallengeSeconds
       /\ intervals' = intervals \cup {nextTimerId}
       /\ challengeTimerRef' = nextTimerId
       /\ moveDot(0, rx, ry, timeouts, nextTimerId + 1)
       /\ runs' = runs + 1
       /\ tickLog' = <<>>
       /\ completions' = 0
       /\ moves' = 1
       /\ videoRefCurrent' = VideoRendered(isCameraActive)
       /\ UNCHANGED <<user, isRegistered, isCameraActive, streamRef, mounted,
                      pending, acquired, liveStreams, lastOutcome, lastAlert,
                      firedAfterTeardown>>

\* click on "Start Challenge": a disabled button delivers no click
ClickStartChallenge ==
  /\ mounted /\ ControlsShown
  /\ IF StartDisabled
     THEN /\ lastCall' = "start:ignored"
          /\ UNCHANGED programVars
     ELSE \E rx, ry \in DotDraws : startChallenge(rx, ry)

\* variant: isChallengeActive is not reset
endChallengeStaysActive(r) ==
  /\ isChallengeActive' = isChallengeActive
  /\ IF challengeTimerRef # 0
     THEN /\ intervals' = intervals \ {challengeTimerRef}
          /\ challengeTimerRef' = 0
     ELSE UNCHANGED <<intervals, challengeTimerRef>>
  /\ IF dotTimerRef # 0
     THEN /\ timeouts' = {t \in timeouts : t.id # dotTimerRef}
          /\ dotTimerRef' = 0
     ELSE UNCHANGED <<timeouts, dotTimerRef>>
  /\ challengeResult' = [status |-> Verdict(r), duration |-> ResultDuration]
  /\ completions' = Sat(completions)

\* variant: the motion timeout is not cleared
endChallengeKeepsDot(r) ==
  /\ isChallengeActive' = FALSE
  /\ IF challengeTimerRef # 0
     THEN /\ intervals' = intervals \ {challengeTimerRef}
          /\ challengeTimerRef' = 0
     ELSE UNCHANGED <<intervals, challengeTimerRef>>
  /\ UNCHANGED <<timeouts, dotTimerRef>>
  /\ challengeResult' = [status |-> Verdict(r), duration |-> ResultDuration]
  /\ completions' = Sat(completions)

\* variant: the countdown interval is not cleared
endChallengeKeepsInterval(r) ==
  /\ isChallengeActive' = FALSE
  /\ UNCHANGED <<intervals, challengeTimerRef>>
  /\ IF dotTimerRef # 0
     THEN /\ timeouts' = {t \in timeouts : t.id # dotTimerRef}
          /\ dotTimerRef' = 0
     ELSE UNCHANGED <<timeouts, dotTimerRef>>
  /\ challengeResult' = [status |-> Verdict(r), duration |-> ResultDuration]
  /\ completions' = Sat(completions)

\* variant: the result is never stored
endChallengeNoPublish(r) ==
  /\ isChallengeActive' = FALSE
  /\ IF challengeTimerRef # 0
     THEN /\ intervals' = intervals \ {challengeTimerRef}
          /\ challengeTimerRef' = 0
     ELSE UNCHANGED <<intervals, challengeTimerRef>>
  /\ IF dotTimerRef # 0
     THEN /\ timeouts' = {t \in timeouts : t.id # dotTimerRef}
          /\ dotTimerRef' = 0
     ELSE UNCHANGED <<timeouts, dotTimerRef>>
  /\ challengeResult' = challengeResult
  /\ completions' = Sat(completions)

\* endChallenge, lines 113-133; r is the Math.random() draw
endChallenge(r) ==
  /\ isChallengeActive' = FALSE
  /\ IF challengeTimerRef # 0
     THEN /\ intervals' = intervals \ {challengeTimerRef}
          /\ challengeTimerRef' = 0
     ELSE UNCHANGED <<intervals, challengeTimerRef>>
  /\ IF dotTimerRef # 0
     THEN /\ timeouts' = {t \in timeouts : t.id # dotTimerRef}
          /\ dotTimerRef' = 0
     ELSE UNCHANGED <<timeouts, dotTimerRef>>
  /\ challengeResult' = [status |-> Verdict(r), duration |-> ResultDuration]
  /\ completions' = Sat(completions)

\* variant: the countdown never notices its end
CountdownDoneBelowZero(prev) == prev < 0

\* variant: the countdown runs one tick too long
CountdownDoneAtZero(prev) == prev <= 0

\* if (prev <= 1), line 80
CountdownDone(prev) == prev <= 1

\* the setInterval callback, lines 78-86
Tick(i) ==
  /\ i \in intervals
  /\ IF mounted
     THEN /\ IF CountdownDone(timeLeft)
             THEN /\ \E r \in RandomDraws : endChallenge(r)
                  /\ timeLeft' = 0
             ELSE /\ timeLeft' = timeLeft - 1
                  /\ UNCHANGED <<isChallengeActive, intervals, challengeTimerRef,
                                 timeouts, dotTimerRef, challengeResult,
                                 completions>>
          /\ tickLog' = IF Len(tickLog) < LogCap THEN Append(tickLog, timeLeft')
                        ELSE tickLog
          /\ UNCHANGED firedAfterTeardown
     ELSE /\ firedAfterTeardown' = TRUE
          /\ UNCHANGED <<isChallengeActive, intervals, challengeTimerRef,
                         timeouts, dotTimerRef, challengeResult, completions,
                         timeLeft, tickLog>>
  /\ videoRefCurrent' = (mounted /\ VideoRendered(isCameraActive))
  /\ UNCHANGED <<user, isRegistered, isCameraActive, dotPosition, streamRef,
                 mounted, pending, acquired, liveStreams, lastOutcome,
                 lastAlert, nextTimerId, runs, moves, lastCall>>

\* the setTimeout callback: moveDot again, in the closure that armed it
MoveDotTimeout(t) ==
  /\ t \in timeouts
  /\ \E rx, ry \in DotDraws :
       moveDot(t.elapsed, rx, ry, timeouts \ {t}, nextTimerId)
  /\ moves' = Sat(moves)
  /\ firedAfterTeardown' = (firedAfterTeardown \/ ~mounted)
  /\ videoRefCurrent' = (mounted /\ VideoRendered(isCameraActive))
  /\ UNCHANGED <<user, isRegistered, isCameraActive, isChallengeActive,
                 challengeResult, timeLeft, streamRef, challengeTimerRef,
                 mounted, pending, acquired, liveStreams, lastOutcome,
                 lastAlert, intervals, runs, tickLog, completions, lastCall>>

\* variant: submitResult without its guard
HasResultAlways(res) == TRUE

\* if (challengeResult), line 137
HasResult(res) == res # NullResult

\* the alert of line 138 names the status
SubmitAlert(status) == IF status = "PASS" THEN "submitted:PASS" ELSE "submitted:FAIL"

\* submitResult, lines 136-143
submitResult ==
  /\ mounted
  /\ IF HasResult(challengeResult)
     THEN /\ lastAlert' = SubmitAlert(challengeResult.status)
          /\ challengeResult' = NullResult
          /\ timeLeft' = 0
          /\ lastCall' = "submit:done"
     ELSE /\ lastCall' = "submit:ignored"
          /\ UNCHANGED <<lastAlert, challengeResult, timeLeft>>
  /\ videoRefCurrent' = VideoRendered(isCameraActive)
  /\ UNCHANGED <<user, isRegistered, isCameraActive, isChallengeActive,
                 dotPosition, streamRef, challengeTimerRef, dotTimerRef,
                 mounted, pending, acquired, liveStreams, lastOutcome,
                 intervals, timeouts, nextTimerId, hist>>

\* ---- teardown ----------------------------------------------------------
\* stopCamera, lines 51-57; setIsCameraActive is ignored by React once the
\* component is unmounted (isMounted is the mount state at the call)
stopCamera(isMounted) ==
  IF streamRef # 0
  THEN /\ liveStreams' = liveStreams \ {streamRef}
       /\ streamRef' = 0
       /\ isCameraActive' = IF isMounted THEN FALSE ELSE isCameraActive
  ELSE UNCHANGED <<liveStreams, streamRef, isCameraActive>>

\* variant: the cleanup forgets the motion timeout
cleanupKeepsDotTimer ==
  /\ stopCamera(FALSE)
  /\ intervals' = IF challengeTimerRef # 0 THEN intervals \ {challengeTimerRef}
                  ELSE intervals
  /\ timeouts' = timeouts

\* the function returned by the effect, lines 147-151
cleanup ==
  /\ stopCamera(FALSE)
  /\ intervals' = IF challengeTimerRef # 0 THEN intervals \ {challengeTimerRef}
                  ELSE intervals
  /\ timeouts' = IF dotTimerRef # 0 THEN {t \in timeouts : t.id # dotTimerRef}
                 ELSE timeouts

\* React unmounts the component: detaches the refs of its elements and runs
\* the effect's cleanup
Unmount ==
  /\ mounted
  /\ mounted' = FALSE
  /\ videoRefCurrent' = FALSE
  /\ cleanup
  /\ UNCHANGED <<user, isRegistered, isChallengeActive, challengeResult,
                 timeLeft, dotPosition, challengeTimerRef, dotTimerRef,
                 pending, acquired, lastOutcome, lastAlert, nextTimerId, hist,
                 lastCall>>

\* the cleanup function called once more after the unmount
CleanupAgain ==
  /\ ~mounted
  /\ cleanup
  /\ UNCHANGED <<user, isRegistered, isChallengeActive, challengeResult,
                 timeLeft, dotPosition, videoRefCurrent, challengeTimerRef,
                 dotTimerRef, mounted, pending, acquired, lastOutcome,
                 lastAlert, nextTimerId, hist, lastCall>>

\* ---- specifications ----------------------------------------------------
Next ==
  \/ \E s \in Strings : SetName(s)
  \/ \E s \in Strings : SetEmail(s)
  \/ handleRegister
  \/ GetUserMediaFulfils
  \/ \E e \in {"NotAllowedError", "NotFoundError"} : GetUserMediaRejects(e)
  \/ ClickStartChallenge
  \/ submitResult
  \/ Unmount
  \/ CleanupAgain

Spec == Init /\ [][Next]_vars

NextActive ==
  \/ ClickStartChallenge
  \/ \E i \in intervals : Tick(i)
  \/ \E t \in timeouts : MoveDotTimeout(t)
  \/ submitResult
  \/ Unmount
  \/ CleanupAgain

SpecActive == InitActive /\ [][NextActive]_vars

\* the browser fires every armed timer
SpecActiveFair ==
  /\ SpecActive
  /\ WF_vars(\E i \in intervals : Tick(i))
  /\ WF_vars(\E t \in timeouts : MoveDotTimeout(t))

TypeOK ==
  /\ isRegistered \in BOOLEAN /\ isCameraActive \in BOOLEAN
  /\ isChallengeActive \in BOOLEAN /\ mounted \in BOOLEAN
  /\ timeLeft \in Int
  /\ challengeResult \in {NullResult} \cup [status : {"PASS", "FAIL"}, duration : {ResultDuration}]

\* ---- state names of the orchestrator -----------------------------------
DeviceActiveIdle ==
  isRegistered /\ isCameraActive /\ ~isChallengeActive /\ ~HasResult(challengeResult)

ResultReady ==
  /\ ~isChallengeActive
  /\ challengeResult \in [status : {"PASS", "FAIL"}, duration : {ResultDuration}]

ArmedTimers == Cardinality(intervals) + Cardinality(timeouts)

\* ---- teardown and acquisition -------------------------------------------
\* C1: once the unmount cleanup has run, no stream obtained from getUserMedia
\* still has live tracks.
TeardownReleasesDevice == ~mounted => liveStreams = {}

\* C2: whenever getUserMedia has resolved with a stream, the component is in
\* DeviceActive: isCameraActive is true and streamRef holds the stream.
CameraActivatesOnSuccess ==
  (mounted /\ lastOutcome = "fulfilled") => (isCameraActive /\ streamRef # 0)

\* ---- starting a challenge -----------------------------------------------
\* C3: a startChallenge call made when the device is inactive or a challenge
\* is running changes nothing, and never more than one countdown interval
\* and one motion timeout are armed.
StartChallengeOnlyFromIdle ==
  /\ [](Cardinality(intervals) <= 1 /\ Cardinality(timeouts) <= 1)
  /\ [][((~isCameraActive \/ isChallengeActive) /\ lastCall' # lastCall
            /\ lastCall' \in {"start:run", "start:ignored"})
          => (lastCall' = "start:ignored" /\ UNCHANGED programVars)]_vars
  /\ [][(runs' # runs) => (isCameraActive /\ ~isChallengeActive)]_vars

C3Witness ==
  /\ lastCall = "start:ignored" /\ isChallengeActive /\ mounted
  /\ Cardinality(intervals) = 1 /\ Cardinality(timeouts) = 1

\* C4: after the cleanup no countdown tick, dot move or completion fires and
\* no result is published, wherever in a run the teardown happens; running
\* the cleanup again changes nothing.
NothingFiresAfterTeardown ==
  /\ [](~mounted => (ArmedTimers = 0 /\ ~firedAfterTeardown))
  /\ [][~mounted => UNCHANGED programVars]_vars

C4Witness ==
  ~mounted /\ isChallengeActive /\ timeLeft = 3 /\ tickLog = <<5, 4, 3>>

\* C5: the ticks of a run produce 5, 4, 3, 2, 1, 0 in this order, and a
\* completed run has produced all six and has called endChallenge once.
CountdownLog == <<5, 4, 3, 2, 1, 0>>

CountdownSequenceExact ==
  /\ Len(tickLog) <= Len(CountdownLog)
  /\ tickLog = SubSeq(CountdownLog, 1, Len(tickLog))
  /\ (mounted /\ runs > 0 /\ isChallengeActive) => (completions = 0 /\ Len(tickLog) < 6)
  /\ (runs > 0 /\ ~isChallengeActive) => (completions = 1 /\ tickLog = CountdownLog)

C5Witness ==
  runs = 2 /\ ~isChallengeActive /\ completions = 1 /\ tickLog = CountdownLog

\* C6: a running challenge that is not torn down reaches ResultReady, with a
\* PASS or FAIL result of duration 6, after exactly six ticks.
ChallengeReachesResult ==
  /\ (mounted /\ isChallengeActive) ~> (~mounted \/ (ResultReady /\ Len(tickLog) = 6))
  /\ []((mounted /\ HasResult(challengeResult)) => (ResultReady /\ Len(tickLog) = 6))

C6Witness ==
  mounted /\ ResultReady /\ Len(tickLog) = 6 /\ challengeResult.status = "FAIL"

\* ---- registration -------------------------------------------------------
\* the claim's validity condition: non-empty trimmed name, e-mail with '@'
NameAndAtPresent(u) == Trim(u.name) # <<>> /\ Includes(u.email, "@")

\* C7: handleRegister registers and starts the acquisition for every input
\* with a non-empty trimmed name and an '@' in the e-mail; for every other
\* input it shows the validation alert and changes nothing else.
RegisterValidates ==
  /\ []((mounted /\ ~isRegistered /\ NameAndAtPresent(user))
          => ENABLED (handleRegister /\ isRegistered'))
  /\ [][handleRegister =>
          IF NameAndAtPresent(user)
          THEN isRegistered' /\ pending' = pending + 1
          ELSE /\ lastAlert' = "validation"
               /\ UNCHANGED <<reactState, refs, mounted, pending, acquired,
                              liveStreams, lastOutcome, intervals, timeouts,
                              nextTimerId, hist>>]_vars

C7Witness ==
  lastAlert = "validation" /\ lastCall = "register:ok" /\ isRegistered /\ pending = 1

\* C8: after a failed acquisition the registration stands, the device is
\* inactive, no stream is held, and every startChallenge is ignored: it arms
\* no timer and changes no state.
FailedAcquisitionLeavesInactive ==
  /\ [](lastOutcome = "rejected" =>
          /\ isRegistered /\ ~isCameraActive /\ streamRef = 0
          /\ liveStreams = {} /\ ArmedTimers = 0
          /\ lastAlert \in {"denied", "required"})
  /\ [][(lastOutcome = "rejected" /\ lastCall' # lastCall
            /\ lastCall' \in {"start:run", "start:ignored"})
          => (lastCall' = "start:ignored" /\ UNCHANGED programVars)]_vars

C8Witness ==
  mounted /\ lastOutcome = "rejected" /\ lastAlert = "denied" /\ lastCall = "start:ignored"

\* C9: from the state a failed acquisition leaves, the caller can trigger the
\* acquisition again.
RetryAfterFailurePossible ==
  (mounted /\ lastOutcome = "rejected") => ENABLED (Next /\ pending' > pending)

\* no step at all starts an acquisition once one has failed, so no longer
\* sequence of operations retries either
NoAcquisitionAfterFailure ==
  [][lastOutcome = "rejected" => pending' <= pending]_vars

\* ---- consuming the result -----------------------------------------------
\* C10: submitResult with a result present reports it, clears it and leaves
\* the component in DeviceActive(Idle); with no result it changes nothing.
SubmitConsumesResult ==
  [][submitResult =>
       IF challengeResult # NullResult
       THEN /\ lastAlert' = (IF challengeResult.status = "PASS"
                             THEN "submitted:PASS" ELSE "submitted:FAIL")
            /\ challengeResult' = NullResult
            /\ isRegistered' /\ isCameraActive' /\ ~isChallengeActive'
            /\ UNCHANGED <<user, dotPosition, refs, mounted, pending, acquired,
                           liveStreams, lastOutcome, intervals, timeouts,
                           nextTimerId, hist>>
       ELSE UNCHANGED programVars]_vars

C10Witness ==
  /\ lastCall = "submit:ignored" /\ lastAlert = "submitted:PASS"
  /\ mounted /\ DeviceActiveIdle /\ runs = 1

\* ---- the result across runs ---------------------------------------------
\* C11: starting a challenge clears the stored result and sets the clock to
\* 6; while a challenge runs no result is present.
StartDiscardsStaleResult ==
  /\ [](isChallengeActive => challengeResult = NullResult)
  /\ [][(runs' # runs) =>
          (challengeResult' = NullResult /\ timeLeft' = 6 /\ isChallengeActive')]_vars

\* the second run was started over the unconsumed result of the first
C11Witness ==
  /\ mounted /\ runs = 2 /\ isChallengeActive /\ lastAlert = "none"
  /\ challengeResult = NullResult /\ timeLeft = 6

\* ---- the device session -------------------------------------------------
\* C12: at no time do two acquired streams have unstopped tracks.
AtMostOneLiveStream == Cardinality(liveStreams) <= 1

C12Witness ==
  mounted /\ lastOutcome = "fulfilled" /\ acquired = 1 /\ Cardinality(liveStreams) = 1

\* ---- the clock ----------------------------------------------------------
\* C13: timeLeft stays within 0..6, and a countdown tick lowers it by exactly
\* one (or leaves it at 0), never below 0.
CountdownInRange ==
  /\ [](timeLeft \in 0..ChallengeSeconds)
  /\ [][(runs' = runs /\ tickLog' # tickLog) =>
          /\ timeLeft' >= 0
          /\ (timeLeft' = timeLeft - 1 \/ (timeLeft = 0 /\ timeLeft' = 0))]_vars

\* the completing tick has taken the clock from 1 to 0
C13Witness ==
  mounted /\ timeLeft = 0 /\ tickLog = CountdownLog /\ challengeResult # NullResult

\* C14: once a countdown has completed and no challenge is running, no
\* countdown interval and no motion timeout is armed.
SchedulersStoppedAfterCompletion ==
  (~isChallengeActive /\ completions >= 1) => ArmedTimers = 0

\* a completion after the motion chain had stopped by itself
C14Witness ==
  /\ mounted /\ ~isChallengeActive /\ completions = 1 /\ moves = 8
  /\ intervals = {} /\ timeouts = {} /\ challengeTimerRef = 0 /\ dotTimerRef = 0

\* ---- the motion scheduler -----------------------------------------------
\* C15: startChallenge itself emits the first position; the chain re-arms
\* only while its elapsed time is below 6000 ms, so a run has at most 8
\* position events, after which nothing is armed, and a position event never
\* completes the challenge.
MotionSchedulerBounded ==
  /\ [](moves <= 8)
  /\ [](\A t \in timeouts : t.elapsed < totalDuration /\ t.elapsed = moves * moveInterval)
  /\ [](moves = 8 => timeouts = {})
  /\ [][(runs' # runs) => (moves' = 1 /\ Cardinality(timeouts') = 1)]_vars
  /\ [][(runs' = runs /\ moves' # moves) =>
          UNCHANGED <<isChallengeActive, challengeResult, completions,
                      intervals, timeLeft, tickLog>>]_vars

\* all eight positions emitted, the countdown still running
C15Witness ==
  mounted /\ isChallengeActive /\ moves = 8 /\ timeouts = {} /\ Len(tickLog) = 4

\* C16: dotPosition changes only in a position event of a running challenge
\* (the one inside startChallenge, or a timeout firing while isChallengeActive);
\* ticks, completion, submitResult and teardown leave it alone.
DotMovesOnlyInChallenge ==
  /\ [][(dotPosition' # dotPosition) =>
          /\ isChallengeActive'
          /\ (runs' # runs \/ (isChallengeActive /\ moves' # moves))]_vars
  /\ [][(runs' = runs /\ moves' # moves) => (mounted /\ isChallengeActive)]_vars

C16Witness ==
  /\ mounted /\ ~isChallengeActive /\ completions = 1 /\ moves = 3
  /\ dotPosition = [x |-> DotCoord(99), y |-> DotCoord(0)]

\* ---- acquisition outstanding -------------------------------------------
\* C17: a startChallenge issued while getUserMedia is outstanding is ignored
\* (no timer, no state change), and the settling of the acquisition starts
\* no challenge.
StartRejectedWhilePending ==
  /\ [][(pending > 0 /\ lastCall' # lastCall
            /\ lastCall' \in {"start:run", "start:ignored"})
          => (lastCall' = "start:ignored" /\ UNCHANGED programVars)]_vars
  /\ [][(pending' < pending) =>
          (~isChallengeActive' /\ ArmedTimers' = 0 /\ runs' = runs)]_vars
  /\ [](pending > 0 => (~isChallengeActive /\ ArmedTimers = 0))

\* the click came while the call was outstanding, which then fulfilled
C17Witness ==
  /\ mounted /\ lastCall = "start:ignored" /\ lastOutcome = "fulfilled"
  /\ pending = 0 /\ ~isChallengeActive /\ runs = 0

\* ---- positions ----------------------------------------------------------
\* C18: both coordinates of the target position are within 10%..90%, in
\* hundredths of a percent 1000..9000.
DotPositionInViewport ==
  /\ dotPosition.x >= 1000 /\ dotPosition.x <= 9000
  /\ dotPosition.y >= 1000 /\ dotPosition.y <= 9000

\* a sampled position at the two ends of Math.random()'s range
C18Witness ==
  runs > 0 /\ dotPosition = [x |-> DotCoord(0), y |-> DotCoord(99)]

\* ---- the composite state ------------------------------------------------
\* C19: while mounted, a running challenge implies an active camera, an
\* active camera implies a registration, a stored result implies an active
\* camera and no running challenge; isRegistered never goes back to false.
StateWellFormed ==
  /\ [](mounted =>
          /\ (isChallengeActive => isCameraActive)
          /\ (isCameraActive => isRegistered)
          /\ (challengeResult # NullResult => (isCameraActive /\ ~isChallengeActive)))
  /\ [][isRegistered => isRegistered']_vars

C19Witness ==
  /\ mounted /\ isRegistered /\ isCameraActive /\ ~isChallengeActive
  /\ challengeResult # NullResult /\ runs = 2

\* the invariant of C20 for the mounted component
FlagMatchesHandleMounted ==
  mounted => (isCameraActive <=> (streamRef # 0 /\ streamRef \in liveStreams))

\* C20: isCameraActive is true exactly when streamRef holds a stream with
\* unstopped tracks, and stopCamera with no held stream changes nothing.
FlagMatchesHandle ==
  /\ [](isCameraActive <=> (streamRef # 0 /\ streamRef \in liveStreams))
  /\ [][(mounted /\ ~mounted' /\ streamRef = 0) =>
          UNCHANGED <<liveStreams, streamRef, isCameraActive>>]_vars

\* the cleanup has called stopCamera with no stream held
C20Witness ==
  /\ ~mounted /\ lastOutcome = "fulfilled" /\ streamRef = 0
  /\ ~isCameraActive /\ liveStreams = {1}

====
